---- MODULE Spec2Model ----
(***************************************************************************)
(* A model of isearch.py: the pattern matchers (NumberMatcher,             *)
(* RegexMatcher), the init.rc parser (InitParser, Section and its          *)
(* subclasses, SectionKeywordValues), the query algorithm                  *)
(* (Section._section_cmp, InitParser.search, SearchCommand) and the        *)
(* verifier (VerifyCommand, SubMatches.filter).                            *)
(*                                                                         *)
(* Python strings are sequences of one-character strings.  The source is   *)
(* Python 2 (iteritems, print statement), so int(s, 0) reads a leading     *)
(* zero as an octal prefix.                                                *)
(***************************************************************************)
EXTENDS Integers, Sequences, FiniteSets, TLC

VARIABLES
    pc,         \* position of the run inside the operation under way
    expr,       \* NumberMatcher: the expression handed to the constructor
    numm,       \* NumberMatcher: the constructed object (or the error raised)
    cand,       \* NumberMatcher: the candidate integer handed to match()
    nres,       \* NumberMatcher: what match() returned
    rx_pat,     \* RegexMatcher: the pattern handed to the constructor
    rx_lazy,    \* RegexMatcher: the lazy_regex flag
    rx,         \* RegexMatcher: the constructed object (or the error raised)
    rx_cand,    \* RegexMatcher: the candidate string handed to match()
    rx_res,     \* RegexMatcher: what match() returned
    files,      \* the input: the list of files, each a list of lines
    ip,         \* the InitParser the constructor returned (NoParser: none)
    exc,        \* the exception that ended the run ("none": none)
    q_name,     \* search: the section name asked for
    q,          \* search: the query
    q_lazy,     \* search: the lazy_regex flag
    matches,    \* search: the list of SubMatches returned
    rule,       \* verify: the Test being run (searches and exceptions)
    vi,         \* verify: how many of the rule's searches have been run
    violators,  \* verify: the set _violations_search is building
    failed,     \* verify: whether the rule was put in failed_tests
    pass,       \* verify: 1 in the first pass over the rule, 2 in a second
    first_violators \* verify: the violation set of the first pass

numVars == <<expr, numm, cand, nres>>
rxVars == <<rx_pat, rx_lazy, rx, rx_cand, rx_res>>
docVars == <<files, ip, exc>>
searchVars == <<q_name, q, q_lazy, matches>>
verifyVars == <<rule, vi, violators, failed>>
passVars == <<pass, first_violators>>
vars == <<pc, numVars, rxVars, docVars, searchVars, verifyVars, passVars>>

(***************************************************************************)
(* Bounds of the model.                                                    *)
(***************************************************************************)
MaxExprLen == 4
MaxOperand == 12
MaxCand == 3
MaxPatLen == 2
MaxTextLen == 3
MaxParseLines == 4
MaxOptions == 2
MaxSections == 2
MaxTerms == 2
MaxBlocks == 3

\* Characters a numeric expression is drawn from (no whitespace, no base
\* prefix letters: the inputs are decimal or, with a leading zero, octal).
NumChars == {"=", "!", "<", ">", "-", ",", "0", "1", "2"}

\* Characters of the literals and patterns: two plain characters and the two
\* regex metacharacters the matcher itself writes.  Literals come from
\* stripped lines of a file, so they never hold a line break.
PlainChars == {"a", "b"}
RegexChars == PlainChars \cup {".", "*"}

StringsUpTo(chars, n) == UNION {[1..k -> chars] : k \in 0..n}

(***************************************************************************)
(* Helpers on strings.                                                     *)
(***************************************************************************)
StartsWith(s, p) == Len(s) >= Len(p) /\ SubSeq(s, 1, Len(p)) = p

IsDigit(c) == c \in {"0", "1", "2", "3", "4", "5", "6", "7", "8", "9"}

DigitVal(c) ==
    CASE c = "0" -> 0 [] c = "1" -> 1 [] c = "2" -> 2 [] c = "3" -> 3
      [] c = "4" -> 4 [] c = "5" -> 5 [] c = "6" -> 6 [] c = "7" -> 7
      [] c = "8" -> 8 [] c = "9" -> 9

DigitChar(d) == <<"0", "1", "2", "3", "4", "5", "6", "7", "8", "9">>[d + 1]

RECURSIVE ToNat(_, _)
ToNat(s, base) ==
    IF Len(s) = 0 THEN 0
    ELSE ToNat(SubSeq(s, 1, Len(s) - 1), base) * base + DigitVal(s[Len(s)])

\* Python 2's int(s, 0): an optional sign, then digits; a leading zero
\* followed by more digits makes the literal octal.
int0(s) ==
    LET signed == Len(s) > 0 /\ s[1] \in {"-", "+"}
        body   == IF signed THEN Tail(s) ELSE s
        base   == IF Len(body) > 1 /\ body[1] = "0" THEN 8 ELSE 10
        valid  == /\ Len(body) > 0
                  /\ \A i \in 1..Len(body) :
                        IsDigit(body[i]) /\ DigitVal(body[i]) < base
        mag    == ToNat(body, base)
    IN  IF valid
        THEN [ok |-> TRUE,
              val |-> IF signed /\ s[1] = "-" THEN 0 - mag ELSE mag]
        ELSE [ok |-> FALSE, val |-> 0]

\* Python's str(n) of an integer.
RECURSIVE DecNat(_)
DecNat(n) ==
    IF n < 10 THEN <<DigitChar(n)>>
    ELSE DecNat(n \div 10) \o <<DigitChar(n % 10)>>

Dec(n) == IF n < 0 THEN <<"-">> \o DecNat(0 - n) ELSE DecNat(n)

(***************************************************************************)
(* NumberMatcher.                                                          *)
(*   err      "none", or the exception the constructor raised              *)
(*   operator self._operator                                               *)
(*   lo, hi   self._values: the operand (lo), or range(lo, hi) for "in"    *)
(***************************************************************************)
Matcher(op, lo, hi) == [err |-> "none", operator |-> op, lo |-> lo, hi |-> hi]
NoMatcher(err) == [err |-> err, operator |-> "", lo |-> 0, hi |-> 0]

\* The operators of _handle_operator in the order the code tests them.
OperatorOrder == << <<"=", "=">>, <<"!", "=">>, <<"<", "=">>, <<">", "=">>,
                    <<">">>, <<"<">> >>

OperatorName(chars) ==
    CASE chars = <<"=", "=">> -> "=="
      [] chars = <<"!", "=">> -> "!="
      [] chars = <<"<", "=">> -> "<="
      [] chars = <<">", "=">> -> ">="
      [] chars = <<">">> -> ">"
      [] chars = <<"<">> -> "<"

\* The if/elif chain of startswith tests: the first operator of `order`
\* that prefixes the expression (0 when none does).
FirstOperator(order, matcher) ==
    LET hits == {i \in 1..Len(order) : StartsWith(matcher, order[i])}
    IN  IF hits = {} THEN 0
        ELSE CHOOSE i \in hits : \A j \in hits : i <= j

handle_operator_swallow(matcher) ==
    LET coerced == IF int0(matcher).ok
                   THEN <<"=", "=">> \o matcher ELSE matcher
        k == FirstOperator(OperatorOrder, coerced)
    IN  IF k = 0 THEN Matcher("==", 0, 0)
        ELSE LET number == SubSeq(coerced, Len(OperatorOrder[k]) + 1,
                                  Len(coerced))
             IN  Matcher(OperatorName(OperatorOrder[k]), int0(number).val, 0)

handle_operator_shortfirst(matcher) ==
    LET coerced == IF int0(matcher).ok
                   THEN <<"=", "=">> \o matcher ELSE matcher
        order == << <<"=", "=">>, <<"!", "=">>, <<">">>, <<"<">>,
                    <<"<", "=">>, <<">", "=">> >>
        k == FirstOperator(order, coerced)
    IN  IF k = 0 THEN NoMatcher("ValueError")
        ELSE LET number == SubSeq(coerced, Len(order[k]) + 1, Len(coerced))
             IN  IF int0(number).ok
                 THEN Matcher(OperatorName(order[k]), int0(number).val, 0)
                 ELSE NoMatcher("ValueError")

handle_operator(matcher) ==
    LET coerced == IF int0(matcher).ok
                   THEN <<"=", "=">> \o matcher ELSE matcher
        k == FirstOperator(OperatorOrder, coerced)
    IN  IF k = 0 THEN NoMatcher("ValueError")
        ELSE LET number == SubSeq(coerced, Len(OperatorOrder[k]) + 1,
                                  Len(coerced))
             IN  IF int0(number).ok
                 THEN Matcher(OperatorName(OperatorOrder[k]),
                              int0(number).val, 0)
                 ELSE NoMatcher("ValueError")

\* str.split(','): the pieces between the commas.
RECURSIVE Split(_, _)
Split(s, sep) ==
    LET at == {i \in 1..Len(s) : s[i] = sep}
    IN  IF at = {} THEN <<s>>
        ELSE LET i == CHOOSE x \in at : \A y \in at : x <= y
             IN  <<SubSeq(s, 1, i - 1)>> \o Split(SubSeq(s, i + 1, Len(s)), sep)

handle_range_closed(matcher) ==
    LET chunks == Split(matcher, ",")
    IN  IF Len(chunks) # 2 THEN NoMatcher("SystemExit")
        ELSE IF ~int0(chunks[1]).ok \/ ~int0(chunks[2]).ok
        THEN NoMatcher("SystemExit")
        ELSE LET a == int0(chunks[1]).val
                 b == int0(chunks[2]).val
             IN  IF a = b THEN Matcher("==", a, 0)
                 ELSE IF b < a THEN Matcher("in", b, a + 1)
                 ELSE Matcher("in", a, b + 1)

handle_range(matcher) ==
    LET chunks == Split(matcher, ",")
    IN  IF Len(chunks) # 2 THEN NoMatcher("SystemExit")
        ELSE IF ~int0(chunks[1]).ok \/ ~int0(chunks[2]).ok
        THEN NoMatcher("SystemExit")
        ELSE LET a == int0(chunks[1]).val
                 b == int0(chunks[2]).val
             IN  IF a = b THEN Matcher("==", a, 0)
                 ELSE IF b < a THEN Matcher("in", b, a)
                 ELSE Matcher("in", a, b)

HasComma(matcher) == \E i \in 1..Len(matcher) : matcher[i] = ","

NumberMatcher_init(matcher) ==
    IF HasComma(matcher) THEN handle_range(matcher)
    ELSE handle_operator(matcher)

\* NumberMatcher.match on the string form of a candidate: "match",
\* "nomatch", or the exception int(number, 0) raises.
NumberMatcher_match(m, number) ==
    LET parsed == int0(number)
        n == parsed.val
        hit == \/ m.operator = "<" /\ n < m.lo
               \/ m.operator = "<=" /\ n <= m.lo
               \/ m.operator = "==" /\ n = m.lo
               \/ m.operator = "!=" /\ n # m.lo
               \/ m.operator = ">" /\ n > m.lo
               \/ m.operator = ">=" /\ n >= m.lo
               \/ m.operator = "in" /\ m.lo <= n /\ n < m.hi
    IN  IF ~parsed.ok THEN "ValueError"
        ELSE IF hit THEN "match" ELSE "nomatch"

(***************************************************************************)
(* RegexMatcher.  Python's True and False are the one-element sequences    *)
(* PyTrue and PyFalse, which no string of characters equals.               *)
(***************************************************************************)
PyTrue == <<"True">>
PyFalse == <<"False">>
IsBool(v) == v \in {PyTrue, PyFalse}

\* str(b).lower() of a bool.
BoolLower(b) ==
    IF b = PyTrue THEN <<"t", "r", "u", "e">>
    ELSE <<"f", "a", "l", "s", "e">>

\* re.compile on the subset of the syntax the patterns use: characters,
\* ".", a postfix "*", "^" and "$".  The result is the list of atoms, or
\* the error a "*" with nothing before it (or after another "*") raises.
RECURSIVE re_atoms(_, _, _)
re_atoms(s, i, acc) ==
    IF i > Len(s) THEN [err |-> "none", atoms |-> acc]
    ELSE IF s[i] = "*"
    THEN IF Len(acc) = 0 \/ acc[Len(acc)].star
               \/ acc[Len(acc)].kind \in {"bol", "eol"}
         THEN [err |-> "re.error", atoms |-> <<>>]
         ELSE re_atoms(s, i + 1,
                       [acc EXCEPT ![Len(acc)].star = TRUE])
    ELSE re_atoms(s, i + 1,
                  Append(acc, [kind |-> CASE s[i] = "^" -> "bol"
                                          [] s[i] = "$" -> "eol"
                                          [] s[i] = "." -> "any"
                                          [] OTHER -> "char",
                               ch |-> s[i], star |-> FALSE]))

re_compile(s) == re_atoms(s, 1, <<>>)

AtomFits(a, c) == a.kind = "any" \/ (a.kind = "char" /\ a.ch = c)

\* Pattern.match(s): the atoms from the i-th on match s from position j on.
RECURSIVE sre_match(_, _, _, _)
sre_match(atoms, i, s, j) ==
    IF i > Len(atoms) THEN TRUE
    ELSE LET a == atoms[i]
         IN  IF a.kind = "bol" THEN j = 1 /\ sre_match(atoms, i + 1, s, j)
             ELSE IF a.kind = "eol"
             THEN j = Len(s) + 1 /\ sre_match(atoms, i + 1, s, j)
             ELSE IF a.star
             THEN \E k \in j..(Len(s) + 1) :
                     /\ \A x \in j..(k - 1) : AtomFits(a, s[x])
                     /\ sre_match(atoms, i + 1, s, k)
             ELSE /\ j <= Len(s)
                  /\ AtomFits(a, s[j])
                  /\ sre_match(atoms, i + 1, s, j + 1)

RegexMatcher_init_unanchored(regex_str, lazy_regex) ==
    LET str == IF IsBool(regex_str) THEN BoolLower(regex_str) ELSE regex_str
        wrapped == IF ~lazy_regex THEN <<".", "*">> \o str \o <<".", "*">>
                   ELSE <<".", "*">> \o str
    IN  re_compile(<<"^">> \o wrapped \o <<"$">>)

RegexMatcher_init(regex_str, lazy_regex) ==
    LET str == IF IsBool(regex_str) THEN BoolLower(regex_str) ELSE regex_str
        wrapped == IF ~lazy_regex THEN <<".", "*">> \o str \o <<".", "*">>
                   ELSE str
    IN  re_compile(<<"^">> \o wrapped \o <<"$">>)

RegexMatcher_match(m, other) ==
    IF sre_match(m.atoms, 1, other, 1) THEN "match" ELSE "nomatch"

(***************************************************************************)
(* The data model: SectionValue, SectionKeywordValues, Section.            *)
(* Python values are written as strings of characters; None, the bools     *)
(* and the int 0 of the schema defaults are one-element sequences that no  *)
(* string of characters equals.                                            *)
(***************************************************************************)
None == <<"None">>
PyInt0 == <<"int 0">>

TypeOf(v) ==
    CASE v = None -> "NoneType"
      [] IsBool(v) -> "bool"
      [] v = PyInt0 -> "int"
      [] OTHER -> "str"

\* Python's truth value of a default.
Truthy(v) == v \notin {None, PyFalse, PyInt0, <<>>}

SectionValue(value, lineno) == [value |-> value, lineno |-> lineno]

\* SectionValue.__str__
SectionValue_str(sv) ==
    IF IsBool(sv.value) THEN BoolLower(sv.value) ELSE sv.value

\* SectionValue.__eq__
SectionValue_eq(a, b) == a.value = b.value

\* SectionKeywordValues.__init__; cls tells a cell from the plain list
\* that SubMatches.filter leaves in its place.
SectionKeywordValues(keyword, default, is_appendable, is_default_printable, matcher) ==
    [cls |-> "SectionKeywordValues",
     keyword |-> keyword,
     is_appendable |-> is_appendable,
     is_set |-> FALSE,
     is_default_printable |-> is_default_printable,
     default_type |-> TypeOf(default),
     values |-> IF Truthy(default) THEN <<SectionValue(default, 0 - 1)>>
                ELSE <<>>,
     matcher |-> matcher]

SectionKeywordValues_push_append(cell, value, lineno) ==
    IF ~cell.is_appendable /\ cell.is_set
    THEN [err |-> "Exception", cell |-> cell]
    ELSE [err |-> "none",
          cell |-> [cell EXCEPT
                      !.values = Append(@,
                          SectionValue(IF cell.default_type = "bool"
                                       THEN PyTrue ELSE value, lineno)),
                      !.is_set = TRUE]]

SectionKeywordValues_push_overwrite(cell, value, lineno) ==
    LET item == SectionValue(IF cell.default_type = "bool"
                             THEN PyTrue ELSE value, lineno)
    IN  [err |-> "none",
         cell |-> [cell EXCEPT
                     !.values = IF cell.is_appendable
                                THEN Append(@, item) ELSE <<item>>,
                     !.is_set = TRUE]]

\* SectionKeywordValues.push: the cell after the push, or the exception.
SectionKeywordValues_push(cell, value, lineno) ==
    IF ~cell.is_appendable /\ cell.is_set
    THEN [err |-> "Exception", cell |-> cell]
    ELSE LET item == SectionValue(IF cell.default_type = "bool"
                                  THEN PyTrue ELSE value, lineno)
         IN  [err |-> "none",
              cell |-> [cell EXCEPT
                          !.values = IF cell.is_appendable
                                     THEN Append(@, item) ELSE <<item>>,
                          !.is_set = TRUE]]

\* SectionKeywordValues.reset
SectionKeywordValues_reset(cell) ==
    [cell EXCEPT !.values = <<>>, !.is_set = FALSE]

\* Section._join: dict(parent) updated with self.
Section_join(parent, self) ==
    [k \in (DOMAIN parent) \cup (DOMAIN self) |->
        IF k \in DOMAIN self THEN self[k] ELSE parent[k]]

Section_keywords ==
    [k \in {"args"} |->
        SectionKeywordValues("args", None, TRUE, FALSE, "RegexMatcher")]

OnSection_keywords ==
    Section_join(Section_keywords,
        [k \in {"command"} |->
            SectionKeywordValues("command", None, TRUE, FALSE,
                                 "RegexMatcher")])

Root == <<"r", "o", "o", "t">>
Default == <<"d", "e", "f", "a", "u", "l", "t">>

ServiceSection_keywords ==
    Section_join(Section_keywords,
        [k \in {"console", "critical", "disabled", "setenv", "getenv",
                "socket", "user", "group", "seclabel", "oneshot", "class",
                "ioprio", "onrestart", "writepid", "keycodes", "priority",
                "start"} |->
            CASE k \in {"console", "critical", "disabled", "oneshot"} ->
                    SectionKeywordValues(k, PyFalse, FALSE, FALSE,
                                         "RegexMatcher")
              [] k \in {"setenv", "getenv", "socket", "onrestart",
                        "writepid", "keycodes"} ->
                    SectionKeywordValues(k, None, TRUE, FALSE, "RegexMatcher")
              [] k \in {"user", "group"} ->
                    SectionKeywordValues(k, Root, FALSE, TRUE, "RegexMatcher")
              [] k \in {"seclabel", "ioprio", "start"} ->
                    SectionKeywordValues(k, None, FALSE, FALSE,
                                         "RegexMatcher")
              [] k = "class" ->
                    SectionKeywordValues(k, Default, FALSE, FALSE,
                                         "RegexMatcher")
              [] k = "priority" ->
                    SectionKeywordValues(k, PyInt0, FALSE, FALSE,
                                         "NumberMatcher")])

\* InitParser._section_map: the schema each section name is built with.
SectionNames == {"on", "service", "import"}

KeywordsOf(name) ==
    CASE name = "on" -> OnSection_keywords
      [] name = "service" -> ServiceSection_keywords
      [] name = "import" -> Section_keywords

\* The class attributes _keywords as the module defines them: the schema
\* of each section class, the base class's joined in.
ClassKeywords ==
    [n \in SectionNames |-> Section_join(Section_keywords, KeywordsOf(n))]

\* copy.deepcopy of a class's schema in Section.__init__: a new map that
\* shares nothing with the class attribute (shared is TRUE for a map whose
\* cells are the class attribute's own).
copy_keywords_alias(keywords) == [shared |-> TRUE, map |-> keywords]

copy_keywords(keywords) == [shared |-> FALSE, map |-> keywords]

\* Section.__init__ with the class attributes as they are at the call.
Section_from(keywords, name, args, path, lineno) ==
    [name |-> name, lineno |-> lineno, path |-> path,
     option_map |-> [copy_keywords(keywords[name]).map EXCEPT
        !["args"] = SectionKeywordValues_push(@, args, lineno).cell]]

\* The class attributes once a section's cells have been pushed into: they
\* follow the section's cells when the section's map shares with them.
keywords_after(keywords, sec) ==
    IF copy_keywords(keywords[sec.name]).shared
    THEN [keywords EXCEPT ![sec.name] = sec.option_map]
    ELSE keywords

\* Section.__init__ (the schema is deep-copied into the instance).
Section(name, args, path, lineno) ==
    Section_from(ClassKeywords, name, args, path, lineno)

(***************************************************************************)
(* A line of a file, as _handle_file sees it once blank lines, comments    *)
(* and folded lines are dealt with: its first token and the rest of its    *)
(* tokens joined by single spaces.                                         *)
(***************************************************************************)
Line(first, rest) == [first |-> first, rest |-> rest]

\* The characters of the first tokens the input lines use.
Spell(token) ==
    CASE token = "service" -> <<"s", "e", "r", "v", "i", "c", "e">>
      [] token = "on" -> <<"o", "n">>
      [] token = "import" -> <<"i", "m", "p", "o", "r", "t">>
      [] token = "socket" -> <<"s", "o", "c", "k", "e", "t">>
      [] token = "user" -> <<"u", "s", "e", "r">>
      [] token = "priority" -> <<"p", "r", "i", "o", "r", "i", "t", "y">>
      [] token = "console" -> <<"c", "o", "n", "s", "o", "l", "e">>
      [] token = "bogus" -> <<"b", "o", "g", "u", "s">>
      [] token = "a" -> <<"a">>
      [] token = "b" -> <<"b">>

\* The text of the whole line.
LineText(line) ==
    IF line.rest = <<>> THEN Spell(line.first)
    ELSE Spell(line.first) \o <<" ">> \o line.rest

\* OnSection.push: the whole line is one more command.
OnSection_push(sec, line, lineno) ==
    [err |-> "none",
     sec |-> [sec EXCEPT !.option_map["command"] =
                SectionKeywordValues_push(@, LineText(line), lineno).cell]]

ServiceSection_push_skip(sec, line, lineno) ==
    IF line.first \notin DOMAIN sec.option_map
    THEN [err |-> "none", sec |-> sec]
    ELSE LET r == SectionKeywordValues_push(sec.option_map[line.first],
                                            line.rest, lineno)
         IN  [err |-> r.err,
              sec |-> [sec EXCEPT !.option_map[line.first] = r.cell]]

\* ServiceSection.push: an unknown keyword ends the run (sys.exit).
ServiceSection_push(sec, line, lineno) ==
    IF line.first \notin DOMAIN sec.option_map
    THEN [err |-> "SystemExit", sec |-> sec]
    ELSE LET r == SectionKeywordValues_push(sec.option_map[line.first],
                                            line.rest, lineno)
         IN  [err |-> r.err,
              sec |-> [sec EXCEPT !.option_map[line.first] = r.cell]]

\* push() of the section's class; the base class (import) implements none.
Section_push(sec, line, lineno) ==
    CASE sec.name = "on" -> OnSection_push(sec, line, lineno)
      [] sec.name = "service" -> ServiceSection_push(sec, line, lineno)
      [] sec.name = "import" -> [err |-> "NotImplementedError", sec |-> sec]

(***************************************************************************)
(* InitParser.  The parser state while a file is read:                     *)
(*   exc      "none", or the exception that ended the run                  *)
(*   items    self._items: section name -> the sections parsed, in order   *)
(*   current  current_section: <<>> for None, else <<the section>>         *)
(*   keywords the class attributes _keywords of the section classes        *)
(***************************************************************************)
ItemsAppend(items, sec) == [items EXCEPT ![sec.name] = Append(@, sec)]

pushed_state(st, r) ==
    [st EXCEPT !.exc = r.err, !.current = <<r.sec>>,
               !.keywords = keywords_after(@, r.sec)]

opened_state(st, sec) ==
    [st EXCEPT
        !.items = IF st.current # <<>>
                  THEN ItemsAppend(@, st.current[1]) ELSE @,
        !.current = <<sec>>,
        !.keywords = keywords_after(@, sec)]

\* The body of _handle_file's loop for one complete line.
handle_line(st, path, line, lineno) ==
    IF line.first \in SectionNames
    THEN opened_state(st, Section_from(st.keywords, line.first, line.rest,
                                       path, lineno))
    ELSE IF st.current # <<>>
    THEN pushed_state(st, Section_push(st.current[1], line, lineno))
    ELSE st

RECURSIVE handle_lines(_, _, _, _)
handle_lines(st, path, lines, i) ==
    IF i > Len(lines) \/ st.exc # "none" THEN st
    ELSE handle_lines(handle_line(st, path, lines[i], i), path, lines, i + 1)

\* The end of _handle_file: the last section is appended to the items.
end_of_file(st) ==
    [exc |-> st.exc,
     keywords |-> st.keywords,
     items |-> IF st.exc = "none" /\ st.current # <<>>
               THEN ItemsAppend(st.items, st.current[1])
               ELSE st.items]

without_last(st) ==
    [exc |-> st.exc, keywords |-> st.keywords, items |-> st.items]

handle_file_droplast(r, path, lines) ==
    without_last(handle_lines([exc |-> "none", items |-> r.items,
                               keywords |-> r.keywords,
                               current |-> <<>>], path, lines, 1))

\* InitParser._handle_file.
handle_file(r, path, lines) ==
    end_of_file(handle_lines([exc |-> "none", items |-> r.items,
                              keywords |-> r.keywords,
                              current |-> <<>>], path, lines, 1))

RECURSIVE handle_files(_, _, _)
handle_files(r, fs, i) ==
    IF i > Len(fs) \/ r.exc # "none" THEN r
    ELSE handle_files(handle_file(r, i, fs[i]), fs, i + 1)

\* InitParser.__init__: a file's path is its place in the list of files.
InitParser(fs) ==
    handle_files([exc |-> "none", keywords |-> ClassKeywords,
                  items |-> [n \in SectionNames |-> <<>>]],
                 fs, 1)

NoParser ==
    [exc |-> "unbuilt", keywords |-> ClassKeywords,
     items |-> [n \in SectionNames |-> <<>>]]

(***************************************************************************)
(* The query algorithm.  A query (a Python dict) is the sequence of its    *)
(* items in the order the dict iterates them: [key, terms], the terms a    *)
(* list of patterns (a single string is normalised to a list of one).      *)
(***************************************************************************)
QueryItem(key, terms) == [key |-> key, terms |-> terms]

QueryKeys(query) == {query[i].key : i \in 1..Len(query)}

\* matcher_class(search_term, lazy_regex).match(section_val_str): "match",
\* "nomatch", or the exception the constructor or match() raises.
Matcher_match(matcher_class, m, section_val_str) ==
    IF m.err # "none" THEN m.err
    ELSE IF matcher_class = "NumberMatcher"
    THEN NumberMatcher_match(m, section_val_str)
    ELSE RegexMatcher_match(m, section_val_str)

Matcher_test(matcher_class, search_term, lazy_regex, section_val_str) ==
    Matcher_match(matcher_class,
                  IF matcher_class = "NumberMatcher"
                  THEN NumberMatcher_init(search_term)
                  ELSE RegexMatcher_init(search_term, lazy_regex),
                  section_val_str)

\* The body of _section_cmp's inner loop once the matcher has answered:
\* on a match the literal is pushed into the submatch cell, which is the
\* cell's reset() copy at the first match.  acc holds the exception raised,
\* the count found and the submatch cell (<<>> until the first match).
pushed_acc(acc, pushed) ==
    [exc |-> pushed.err, found |-> acc.found + 1, sub |-> <<pushed.cell>>]

pair_cmp(acc, cell, section_val, result) ==
    CASE result = "nomatch" -> acc
      [] result = "match" ->
            pushed_acc(acc,
                SectionKeywordValues_push(
                    IF acc.sub = <<>> THEN SectionKeywordValues_reset(cell)
                    ELSE acc.sub[1],
                    section_val.value, section_val.lineno))
      [] OTHER -> [acc EXCEPT !.exc = result]

\* The two nested loops of _section_cmp over one cell: the n-th pair of
\* (literal, term), literals outermost.
RECURSIVE cmp_pairs(_, _, _, _, _)
cmp_pairs(cell, terms, lazy_regex, n, acc) ==
    IF acc.exc # "none" \/ n >= Len(cell.values) * Len(terms) THEN acc
    ELSE cmp_pairs(cell, terms, lazy_regex, n + 1,
            pair_cmp(acc, cell, cell.values[(n \div Len(terms)) + 1],
                Matcher_test(cell.matcher, terms[(n % Len(terms)) + 1],
                    lazy_regex,
                    SectionValue_str(cell.values[(n \div Len(terms)) + 1]))))

\* One turn of _section_cmp's outer loop: "ok" with the submatch cell,
\* "nomatch" (the code's return of -1), or the exception raised.
key_result_any(acc, terms) ==
    IF acc.exc # "none" THEN [st |-> acc.exc, sub |-> <<>>]
    ELSE IF acc.found < 1 THEN [st |-> "nomatch", sub |-> <<>>]
    ELSE [st |-> "ok", sub |-> acc.sub]

key_result(acc, terms) ==
    IF acc.exc # "none" THEN [st |-> acc.exc, sub |-> <<>>]
    ELSE IF acc.found < Len(terms) THEN [st |-> "nomatch", sub |-> <<>>]
    ELSE [st |-> "ok", sub |-> acc.sub]

key_cmp(section, item, lazy_regex) ==
    IF item.key \notin DOMAIN section.option_map
    THEN [st |-> "KeyError", sub |-> <<>>]
    ELSE IF Len(section.option_map[item.key].values) = 0
    THEN [st |-> "nomatch", sub |-> <<>>]
    ELSE key_result(
            cmp_pairs(section.option_map[item.key], item.terms, lazy_regex, 0,
                      [exc |-> "none", found |-> 0, sub |-> <<>>]),
            item.terms)

\* Section._section_cmp and Section.match: the first item of the query
\* that fails or raises decides; otherwise the submatches of every item.
match_result(query, res) ==
    LET bad == {i \in 1..Len(query) : res[i].st # "ok"}
        hit == {i \in 1..Len(query) : res[i].sub # <<>>}
    IN  IF bad # {}
        THEN [st |-> res[CHOOSE i \in bad : \A j \in bad : i <= j].st,
              submatches |-> <<>>]
        ELSE [st |-> "match",
              submatches |->
                  [k \in {query[i].key : i \in hit} |->
                      res[CHOOSE i \in hit : query[i].key = k].sub[1]]]

Section_match(section, query, lazy_regex) ==
    match_result(query,
        [i \in 1..Len(query) |-> key_cmp(section, query[i], lazy_regex)])

\* copy.deepcopy of a cell of the section: a new object that shares
\* nothing with the section (shared is TRUE for an object that is the
\* section's own cell).
copy_alias(cell) == [shared |-> TRUE, cell |-> cell]

copy_deepcopy(cell) == [shared |-> FALSE, cell |-> cell]

\* The section's cell once _section_cmp has reset the submatch cell and
\* pushed into it: the section's own cell follows what is done to an
\* object that shares with it.
cell_after(ref, acc) ==
    IF ref.shared /\ acc.sub # <<>> THEN acc.sub[1] ELSE ref.cell

\* The cell of the item's keyword as _section_cmp leaves it.
key_touch(section, item, lazy_regex) ==
    cell_after(copy_deepcopy(section.option_map[item.key]),
        cmp_pairs(section.option_map[item.key], item.terms, lazy_regex, 0,
                  [exc |-> "none", found |-> 0, sub |-> <<>>]))

\* The items of the query _section_cmp gets to: all of them, or those up
\* to the first that fails or raises.
Reached(query, res) ==
    LET bad == {i \in 1..Len(query) : res[i].st # "ok"}
    IN  IF bad = {} THEN 1..Len(query)
        ELSE 1..(CHOOSE i \in bad : \A j \in bad : i <= j)

touched_map(section, query, lazy_regex, reached) ==
    [k \in DOMAIN section.option_map |->
        IF \E i \in reached : query[i].key = k
        THEN key_touch(section,
                 query[CHOOSE i \in reached : query[i].key = k], lazy_regex)
        ELSE section.option_map[k]]

\* The section as Section.match leaves it.
Section_touched(section, query, lazy_regex) ==
    [section EXCEPT !.option_map =
        touched_map(section, query, lazy_regex,
            Reached(query,
                [i \in 1..Len(query) |->
                    key_cmp(section, query[i], lazy_regex)]))]

\* A SubMatches object: the section it refers to (the section's place in
\* the parser's items stands for the object's identity) and its submatches.
SectionRef(name, idx) == [name |-> name, idx |-> idx]
SubMatches(section, submatches) ==
    [section |-> section, submatches |-> submatches]
SectionOf(self, ref) == self.items[ref.name][ref.idx]

\* InitParser.search: the loop over the sections of one name.
search_add(acc, ref, m) ==
    CASE m.st = "match" ->
            [acc EXCEPT !.found = Append(@, SubMatches(ref, m.submatches))]
      [] m.st = "nomatch" -> acc
      [] OTHER -> [acc EXCEPT !.exc = m.st]

RECURSIVE search_from(_, _, _, _, _, _)
search_from(self, section_name, search, lazy_regex, i, acc) ==
    IF acc.exc # "none" \/ i > Len(self.items[section_name]) THEN acc
    ELSE search_from(self, section_name, search, lazy_regex, i + 1,
            search_add(acc, SectionRef(section_name, i),
                Section_match(self.items[section_name][i], search,
                              lazy_regex)))

InitParser_search_unordered(self, section_name, search, lazy_regex) ==
    LET r == search_from(self, section_name, search, lazy_regex, 1,
                         [exc |-> "none", found |-> <<>>])
    IN  [r EXCEPT !.found = [i \in 1..Len(@) |-> @[Len(@) + 1 - i]]]

InitParser_search(self, section_name, search, lazy_regex) ==
    search_from(self, section_name, search, lazy_regex, 1,
                [exc |-> "none", found |-> <<>>])

\* The parser's store as InitParser.search leaves it: the sections of the
\* name as their match() leaves them, up to the section whose match raises.
Raises(section, search, lazy_regex) ==
    Section_match(section, search, lazy_regex).st \notin {"match", "nomatch"}

InitParser_searched(self, section_name, search, lazy_regex) ==
    [self EXCEPT !.items[section_name] =
        [i \in 1..Len(@) |->
            IF \E j \in 1..(i - 1) : Raises(@[j], search, lazy_regex)
            THEN @[i]
            ELSE Section_touched(@[i], search, lazy_regex)]]

(***************************************************************************)
(* The search command and the verifier.  The arguments of a search (a      *)
(* Python dict) are a record: section is <<>> once the key is deleted,     *)
(* else <<the name>>; query holds the keyword items.                       *)
(***************************************************************************)
\* Test.start_search, append_keyword and end_search: the dict of a search.
Test_search(section, query) == [section |-> <<section>>, query |-> query]

\* Test: the rule, its searches and its exceptions in document order.
Test(section, searches, exceptions) ==
    [section |-> section,
     searches |-> [i \in 1..Len(searches) |->
                      Test_search(section, searches[i])],
     exceptions |-> exceptions]

NoRule == [section |-> "", searches |-> <<>>, exceptions |-> <<>>]

called(r, args) == [exc |-> r.exc, found |-> r.found, args |-> args]

\* SearchCommand.__call__ on a silent search without the lazy key: what is
\* returned or raised, and the dict as the call leaves it.
SearchCommand_call(self, args) ==
    IF args.section = <<>>
    THEN [exc |-> "KeyError", found |-> <<>>, args |-> args]
    ELSE IF ~(QueryKeys(args.query) \subseteq DOMAIN KeywordsOf(args.section[1]))
    THEN [exc |-> "Exception", found |-> <<>>,
          args |-> [args EXCEPT !.section = <<>>]]
    ELSE called(InitParser_search(self, args.section[1], args.query, FALSE),
                [args EXCEPT !.section = <<>>])

\* SubMatches.__eq__ of self for other.
SubMatches_eq_reversed(self, other) ==
    /\ self.section = other.section
    /\ DOMAIN self.submatches \subseteq DOMAIN other.submatches

SubMatches_eq(self, other) ==
    /\ self.section = other.section
    /\ DOMAIN other.submatches \subseteq DOMAIN self.submatches

\* set.add: the new element is dropped when an element of the set with its
\* hash (its section) answers __eq__ for it.
set_add(set, x) ==
    IF \E e \in set : SubMatches_eq(e, x) THEN set ELSE set \cup {x}

\* value in values, by SectionValue.__eq__
ValueIn(value, values) ==
    \E n \in 1..Len(values) : SectionValue_eq(values[n], value)

\* list.remove: the list without its first element equal to value.
list_remove(sub, value) ==
    LET n == CHOOSE n \in 1..Len(sub) :
                /\ SectionValue_eq(sub[n], value)
                /\ \A k \in 1..(n - 1) : ~SectionValue_eq(sub[k], value)
    IN  SubSeq(sub, 1, n - 1) \o SubSeq(sub, n + 1, Len(sub))

\* The inner loop of SubMatches.filter for one key: values are the literals
\* of the found cell, sub the copy the exception's literals are removed
\* from; remove() raises ValueError when the copy holds the literal no more.
RECURSIVE filter_key(_, _, _, _)
filter_key(values, fltr_values, n, acc) ==
    IF acc.exc # "none" \/ n > Len(fltr_values) THEN acc
    ELSE filter_key(values, fltr_values, n + 1,
            IF ~ValueIn(fltr_values[n], values) THEN acc
            ELSE IF ~ValueIn(fltr_values[n], acc.sub)
            THEN [acc EXCEPT !.exc = "ValueError"]
            ELSE [acc EXCEPT !.sub = list_remove(@, fltr_values[n])])

\* What SubMatches.filter leaves for the keys: a plain list for each key
\* with a remainder.
filter_left(found, res) ==
    IF \E k \in DOMAIN res : res[k].exc # "none"
    THEN [exc |-> "ValueError", x |-> found, filtered |-> FALSE]
    ELSE [exc |-> "none",
          x |-> [found EXCEPT !.submatches =
                    [k \in {kk \in DOMAIN res : Len(res[kk].sub) > 0} |->
                        [cls |-> "list", values |-> res[k].sub]]],
          filtered |-> \A k \in DOMAIN res : Len(res[k].sub) = 0]

\* SubMatches.filter(match): found with the submatches left, and whether
\* nothing is left.
SubMatches_filter(found, fltr) ==
    filter_left(found,
        [k \in (DOMAIN fltr) \cap (DOMAIN found.submatches) |->
            filter_key(found.submatches[k].values, fltr[k].values, 1,
                       [exc |-> "none", sub |-> found.submatches[k].values])])

VerifyCommand_filter_all(self, exception_args, found) ==
    [exc |-> "none", x |-> found, filtered |-> TRUE]

\* VerifyCommand.filter: the first exception that matches the section of
\* found filters it; filtered is FALSE for the None returned when no
\* exception matches.
RECURSIVE filter_from(_, _, _, _)
retry_after(self, exception_args, found, n, r) ==
    IF r.exc # "none" \/ r.filtered THEN r
    ELSE filter_from(self, exception_args, found, n + 1)

filter_with_retry(self, exception_args, found, n, m) ==
    CASE m.st = "match" ->
            retry_after(self, exception_args, found, n,
                        SubMatches_filter(found, m.submatches))
      [] m.st = "nomatch" -> filter_from(self, exception_args, found, n + 1)
      [] OTHER -> [exc |-> m.st, x |-> found, filtered |-> FALSE]

filter_with(self, exception_args, found, n, m) ==
    CASE m.st = "match" -> SubMatches_filter(found, m.submatches)
      [] m.st = "nomatch" -> filter_from(self, exception_args, found, n + 1)
      [] OTHER -> [exc |-> m.st, x |-> found, filtered |-> FALSE]

filter_from(self, exception_args, found, n) ==
    IF n > Len(exception_args)
    THEN [exc |-> "none", x |-> found, filtered |-> FALSE]
    ELSE filter_with(self, exception_args, found, n,
            Section_match(SectionOf(self, found.section), exception_args[n],
                          FALSE))

VerifyCommand_filter(self, exception_args, found) ==
    filter_from(self, exception_args, found, 1)

\* The loop of _violations_search over the results of one search.
add_unfiltered(acc, r) ==
    IF r.exc # "none" THEN [acc EXCEPT !.exc = r.exc]
    ELSE IF r.filtered THEN acc
    ELSE [acc EXCEPT !.found = set_add(@, r.x)]

RECURSIVE filter_results(_, _, _, _, _)
filter_results(self, exception_args, f, n, acc) ==
    IF acc.exc # "none" \/ n > Len(f) THEN acc
    ELSE filter_results(self, exception_args, f, n + 1,
            add_unfiltered(acc,
                VerifyCommand_filter(self, exception_args, f[n])))

\* One turn of _violations_search's loop over the searches.
search_result(self, exception_args, set, r) ==
    IF r.exc # "none" THEN [exc |-> r.exc, found |-> set, args |-> r.args]
    ELSE filter_results(self, exception_args, r.found, 1,
                        [exc |-> "none", found |-> set, args |-> r.args])

violations_search_step(self, s, exception_args, set) ==
    search_result(self, exception_args, set, SearchCommand_call(self, s))

\* The section as the loop of VerifyCommand.filter leaves it: matched
\* against the except blocks from the n-th on, up to the first that
\* matches or raises.
RECURSIVE except_touched(_, _, _)
next_except(touched, st, exception_args, n) ==
    IF st = "nomatch" THEN except_touched(touched, exception_args, n + 1)
    ELSE touched

except_touched(section, exception_args, n) ==
    IF n > Len(exception_args) THEN section
    ELSE next_except(Section_touched(section, exception_args[n], FALSE),
                     Section_match(section, exception_args[n], FALSE).st,
                     exception_args, n)

\* The store as the loop of _violations_search over the results f of one
\* search leaves it.
RECURSIVE results_touched(_, _, _, _)
next_result(touched, raised, exception_args, f, n) ==
    IF raised # "none" THEN touched
    ELSE results_touched(touched, exception_args, f, n + 1)

results_touched(self, exception_args, f, n) ==
    IF n > Len(f) THEN self
    ELSE next_result(
            [self EXCEPT !.items[f[n].section.name][f[n].section.idx] =
                except_touched(@, exception_args, 1)],
            VerifyCommand_filter(self, exception_args, f[n]).exc,
            exception_args, f, n)

search_touched(self, s, exception_args, r) ==
    IF r.exc # "none"
    THEN InitParser_searched(self, s.section[1], s.query, FALSE)
    ELSE results_touched(
            InitParser_searched(self, s.section[1], s.query, FALSE),
            exception_args, r.found, 1)

\* The store as one turn of _violations_search's loop leaves it.
violations_search_touched(self, s, exception_args) ==
    IF s.section = <<>> THEN self
    ELSE IF ~(QueryKeys(s.query) \subseteq DOMAIN KeywordsOf(s.section[1]))
    THEN self
    ELSE search_touched(self, s, exception_args,
             InitParser_search(self, s.section[1], s.query, FALSE))

\* _violations_search: the loop over the searches from the n-th on.
RECURSIVE violations_search(_, _, _, _, _)
violations_search(self, search_args, exception_args, n, acc) ==
    IF acc.exc # "none" \/ n > Len(search_args) THEN acc
    ELSE violations_search(self, search_args, exception_args, n + 1,
            violations_search_step(self, search_args[n], exception_args,
                                   acc.found))

(***************************************************************************)
(* The NumberMatcher on its own: every expression of up to MaxExprLen      *)
(* characters is handed to the constructor, and every matcher built is     *)
(* asked about candidates around its operands.                             *)
(***************************************************************************)
Candidates(m) ==
    ((0 - MaxCand)..MaxCand)
        \cup {m.lo - 1, m.lo, m.lo + 1, m.hi - 1, m.hi, m.hi + 1}

NumIdle ==
    /\ expr = <<>>
    /\ numm = NoMatcher("unbuilt")
    /\ cand = 0
    /\ nres = "none"

RxIdle ==
    /\ rx_pat = <<>>
    /\ rx_lazy = FALSE
    /\ rx = [err |-> "unbuilt", atoms |-> <<>>]
    /\ rx_cand = <<>>
    /\ rx_res = "none"

DocIdle ==
    /\ files = <<>>
    /\ ip = NoParser
    /\ exc = "none"

SearchIdle ==
    /\ q_name = "none"
    /\ q = <<>>
    /\ q_lazy = FALSE
    /\ matches = <<>>

VerifyIdle ==
    /\ rule = NoRule
    /\ vi = 0
    /\ violators = {}
    /\ failed = FALSE
    /\ pass = 1
    /\ first_violators = {}

NumInit ==
    /\ pc = "new"
    /\ expr \in StringsUpTo(NumChars, MaxExprLen)
    /\ numm = NoMatcher("unbuilt")
    /\ cand = 0
    /\ nres = "none"
    /\ RxIdle
    /\ DocIdle
    /\ SearchIdle
    /\ VerifyIdle

NumFrame == UNCHANGED <<rxVars, docVars, searchVars, verifyVars, passVars>>

NumConstruct ==
    /\ pc = "new"
    /\ numm' = NumberMatcher_init(expr)
    /\ pc' = IF numm'.err = "none" THEN "built" ELSE "raised"
    /\ UNCHANGED <<expr, cand, nres>>
    /\ NumFrame

NumMatch ==
    /\ pc = "built"
    /\ \E c \in Candidates(numm) :
          /\ cand' = c
          /\ nres' = NumberMatcher_match(numm, Dec(c))
    /\ pc' = "matched"
    /\ UNCHANGED <<expr, numm>>
    /\ NumFrame

NumNext == NumConstruct \/ NumMatch

SpecNum == NumInit /\ [][NumNext]_vars

(***************************************************************************)
(* The RegexMatcher on its own: every pattern of up to MaxPatLen           *)
(* characters, lazy and greedy, against every literal of up to MaxTextLen  *)
(* plain characters.                                                       *)
(***************************************************************************)
RxInit ==
    /\ pc = "new"
    /\ rx_pat \in StringsUpTo(RegexChars, MaxPatLen)
    /\ rx_lazy \in BOOLEAN
    /\ rx = [err |-> "unbuilt", atoms |-> <<>>]
    /\ rx_cand = <<>>
    /\ rx_res = "none"
    /\ NumIdle
    /\ DocIdle
    /\ SearchIdle
    /\ VerifyIdle

RxFrame == UNCHANGED <<numVars, docVars, searchVars, verifyVars, passVars>>

RxConstruct ==
    /\ pc = "new"
    /\ rx' = RegexMatcher_init(rx_pat, rx_lazy)
    /\ pc' = IF rx'.err = "none" THEN "built" ELSE "raised"
    /\ UNCHANGED <<rx_pat, rx_lazy, rx_cand, rx_res>>
    /\ RxFrame

RxMatch ==
    /\ pc = "built"
    /\ \E c \in StringsUpTo(PlainChars, MaxTextLen) :
          /\ rx_cand' = c
          /\ rx_res' = RegexMatcher_match(rx, c)
    /\ pc' = "matched"
    /\ UNCHANGED <<rx_pat, rx_lazy, rx>>
    /\ RxFrame

RxNext == RxConstruct \/ RxMatch

SpecRegex == RxInit /\ [][RxNext]_vars

(***************************************************************************)
(* Parsing.  The constructor reads the files in one go; when a line        *)
(* raises, the constructor never returns and the caller holds no parser.   *)
(***************************************************************************)
A == <<"a">>
AA == <<"a", "a">>
AB == <<"a", "b">>
B == <<"b">>
One == <<"1">>

SeqsUpTo(S, n) == UNION {[1..k -> S] : k \in 0..n}

RECURSIVE Flatten(_)
Flatten(ss) == IF ss = <<>> THEN <<>> ELSE Head(ss) \o Flatten(Tail(ss))

\* Every way of cutting a list of lines into two files.
Cuts(lines) ==
    {<<SubSeq(lines, 1, k), SubSeq(lines, k + 1, Len(lines))>> :
        k \in 0..Len(lines)}

ParseLines ==
    {Line("service", A), Line("on", A), Line("import", A),
     Line("socket", A), Line("user", A), Line("bogus", A)}

\* The lines as one file (k past the end), or cut into two files after
\* line k.
FilesOf(lines, k) ==
    IF k > Len(lines) THEN <<lines>>
    ELSE <<SubSeq(lines, 1, k), SubSeq(lines, k + 1, Len(lines))>>

ParseDocs ==
    {FilesOf(lines, k) : lines \in SeqsUpTo(ParseLines, MaxParseLines),
                         k \in 0..(MaxParseLines + 1)}

Constructed(r) ==
    /\ exc' = r.exc
    /\ ip' = IF r.exc = "none" THEN r ELSE NoParser
    /\ pc' = IF r.exc = "none" THEN "parsed" ELSE "aborted"

Construct ==
    /\ pc = "new"
    /\ Constructed(InitParser(files))
    /\ UNCHANGED files

ParseInit ==
    /\ pc = "new"
    /\ files \in ParseDocs
    /\ ip = NoParser
    /\ exc = "none"
    /\ NumIdle /\ RxIdle /\ SearchIdle /\ VerifyIdle

ParseNext ==
    Construct /\ UNCHANGED <<numVars, rxVars, searchVars, verifyVars, passVars>>

SpecParse == ParseInit /\ [][ParseNext]_vars

(***************************************************************************)
(* Searching a parsed document with InitParser.search.                     *)
(***************************************************************************)
OptionLines ==
    {Line("socket", A), Line("socket", AA), Line("user", AB),
     Line("priority", One)}

\* One service section with every list of up to MaxOptions option lines.
SingleServiceDocs ==
    {<< <<Line("service", A)>> \o opts >> :
        opts \in SeqsUpTo(OptionLines, MaxOptions)}

BlockMenu ==
    {<<Line("service", A), Line("socket", A)>>,
     <<Line("service", AB)>>,
     <<Line("on", A), Line("b", A)>>,
     <<Line("import", A)>>}

\* Up to MaxSections sections of the menu, cut into two files.
MultiDocs ==
    UNION {Cuts(Flatten(blocks)) :
              blocks \in SeqsUpTo(BlockMenu, MaxSections) \ {<<>>}}

SearchDocs == SingleServiceDocs \cup MultiDocs

RegexTerms == {A, B}
NumTerms == {One, <<">", "1">>}

TermLists(terms) == SeqsUpTo(terms, MaxTerms) \ {<<>>}

TermsOf(key) == IF key = "priority" THEN NumTerms ELSE RegexTerms

\* The queries a search is asked: one keyword with up to MaxTerms terms,
\* or two keywords with one term each, in either order of iteration.
OneKeyQueries(keys) ==
    {<<QueryItem(k, ts)>> : k \in keys, ts \in UNION {TermLists(TermsOf(kk)) : kk \in keys}}

TwoKeyQueries(keys) ==
    {<<QueryItem(k1, <<t1>>), QueryItem(k2, <<t2>>)>> :
        k1 \in keys, k2 \in keys, t1 \in RegexTerms, t2 \in RegexTerms}

QueriesOf(name) ==
    CASE name = "service" ->
            {qq \in OneKeyQueries({"args", "socket", "user", "priority"}) :
                qq[1].terms \in TermLists(TermsOf(qq[1].key))}
            \cup {qq \in TwoKeyQueries({"args", "socket", "user"}) :
                    qq[1].key # qq[2].key}
      [] name = "on" ->
            {qq \in OneKeyQueries({"args", "command"}) : Len(qq[1].terms) = 1}
      [] name = "import" ->
            {qq \in OneKeyQueries({"args", "socket"}) : Len(qq[1].terms) = 1}

SearchInit ==
    /\ pc = "new"
    /\ files \in SearchDocs
    /\ ip = NoParser
    /\ exc = "none"
    /\ SearchIdle
    /\ NumIdle /\ RxIdle /\ VerifyIdle

SearchFrame == UNCHANGED <<numVars, rxVars, verifyVars, passVars>>

Searched(r) ==
    /\ exc' = r.exc
    /\ matches' = IF r.exc = "none" THEN r.found ELSE <<>>
    /\ pc' = IF r.exc = "none" THEN "searched" ELSE "raised"

Search ==
    /\ pc = "parsed"
    /\ \E name \in SectionNames, lazy \in BOOLEAN :
         \E query \in QueriesOf(name) :
            /\ q_name' = name
            /\ q' = query
            /\ q_lazy' = lazy
            /\ Searched(InitParser_search(ip, name, query, lazy))
            /\ ip' = InitParser_searched(ip, name, query, lazy)
    /\ UNCHANGED files

SearchNext ==
    \/ Construct /\ UNCHANGED searchVars /\ SearchFrame
    \/ Search /\ SearchFrame

SpecSearch == SearchInit /\ [][SearchNext]_vars

(***************************************************************************)
(* Verifying a parsed document against one rule.  The document holds the   *)
(* services named in ServiceNames, each with one of SocketLists; the rule  *)
(* holds up to MaxBlocks search and except blocks.                         *)
(***************************************************************************)
ServiceNames == <<A, B>>
SocketLists == {<<>>, <<A>>, <<AB>>, <<A, AB>>}

ServiceBlock(name, sockets) ==
    <<Line("service", name)>> \o
        [i \in 1..Len(sockets) |-> Line("socket", sockets[i])]

VerifyDocs ==
    UNION {{<<Flatten([i \in 1..n |-> ServiceBlock(ServiceNames[i], socks[i])])>> :
                socks \in [1..n -> SocketLists]} :
           n \in 1..Len(ServiceNames)}

SearchBlocks ==
    {<<QueryItem("socket", <<A>>)>>, <<QueryItem("socket", <<AB>>)>>,
     <<QueryItem("args", <<A>>)>>}

ExceptBlocks ==
    {<<QueryItem("args", <<n>>), QueryItem("socket", ts)>> :
        n \in {A, B}, ts \in {<<A>>, <<AB>>, <<A, AB>>}}

Rules ==
    UNION {{Test("service", ss, es) :
                ss \in [1..ns -> SearchBlocks],
                es \in SeqsUpTo(ExceptBlocks, MaxBlocks - ns)} :
           ns \in 1..MaxBlocks}

VerifyInit ==
    /\ pc = "new"
    /\ files \in VerifyDocs
    /\ ip = NoParser
    /\ exc = "none"
    /\ rule \in Rules
    /\ vi = 0
    /\ violators = {}
    /\ failed = FALSE
    /\ pass = 1
    /\ first_violators = {}
    /\ NumIdle /\ RxIdle /\ SearchIdle

VerifyFrame == UNCHANGED <<numVars, rxVars, searchVars, passVars>>

Stepped(r) ==
    /\ exc' = r.exc
    /\ violators' = r.found
    /\ rule' = [rule EXCEPT !.searches[vi + 1] = r.args]
    /\ pc' = IF r.exc = "none" THEN "parsed" ELSE "raised"

\* One turn of the loop of _violations_search.
ViolationsSearch ==
    /\ pc = "parsed"
    /\ vi < Len(rule.searches)
    /\ Stepped(violations_search_step(ip, rule.searches[vi + 1],
                                      rule.exceptions, violators))
    /\ ip' = violations_search_touched(ip, rule.searches[vi + 1],
                                        rule.exceptions)
    /\ vi' = vi + 1
    /\ UNCHANGED <<files, failed>>

\* The end of the loop of __call__ for the rule: len(v) > 0.
Finish ==
    /\ pc = "parsed"
    /\ vi = Len(rule.searches)
    /\ failed' = (Cardinality(violators) > 0)
    /\ pc' = "verified"
    /\ UNCHANGED <<files, ip, exc, rule, vi, violators>>

VerifyNext ==
    \/ Construct /\ UNCHANGED verifyVars /\ VerifyFrame
    \/ ViolationsSearch /\ VerifyFrame
    \/ Finish /\ VerifyFrame

SpecVerify == VerifyInit /\ [][VerifyNext]_vars

(***************************************************************************)
(* A second pass over a rule that has been verified: VerifyCommand.__call__*)
(* called again, which builds the Test afresh from the rule file, or the   *)
(* loop of _violations_search run again over the Test records the first    *)
(* pass used.                                                              *)
(***************************************************************************)
\* The queries of the rule's searches, as the rule file gives them.
SearchQueries == [i \in 1..Len(rule.searches) |-> rule.searches[i].query]

SecondPass ==
    /\ pc = "verified"
    /\ pass = 1
    /\ pass' = 2
    /\ first_violators' = violators
    /\ vi' = 0
    /\ violators' = {}
    /\ failed' = FALSE
    /\ pc' = "parsed"
    /\ UNCHANGED <<files, ip, exc>>

\* VerifyCommand.__call__ again: AssertParser reads the rule file again.
VerifyAgain ==
    /\ SecondPass
    /\ rule' = Test(rule.section, SearchQueries, rule.exceptions)

\* _violations_search again over t.searches and t.exceptions as they are.
SearchesAgain ==
    /\ SecondPass
    /\ UNCHANGED rule

ReverifyFrame == UNCHANGED <<numVars, rxVars, searchVars>>

ReverifyNext ==
    \/ VerifyNext
    \/ VerifyAgain /\ ReverifyFrame
    \/ SearchesAgain /\ ReverifyFrame

SpecReverify == VerifyInit /\ [][ReverifyNext]_vars

(***************************************************************************)
(* Verifying against rules whose blocks differ in the keywords they name:   *)
(* an except block may lack the keyword of the search, and a block may     *)
(* name a keyword the service schema does not hold (command, a keyword of  *)
(* the on sections).                                                       *)
(***************************************************************************)
KeySearchBlocks ==
    {<<QueryItem("socket", <<A>>)>>, <<QueryItem("command", <<A>>)>>,
     <<QueryItem("args", <<A>>), QueryItem("socket", <<A>>)>>}

KeyExceptBlocks ==
    {<<QueryItem("args", <<A>>), QueryItem("socket", <<A>>)>>,
     <<QueryItem("args", <<A>>)>>,
     <<QueryItem("command", <<A>>)>>,
     <<QueryItem("args", <<A>>), QueryItem("command", <<A>>)>>}

KeyRules ==
    UNION {{Test("service", ss, es) :
                ss \in [1..ns -> KeySearchBlocks],
                es \in SeqsUpTo(KeyExceptBlocks, MaxBlocks - ns)} :
           ns \in 1..MaxBlocks}

VerifyKeysInit ==
    /\ pc = "new"
    /\ files \in VerifyDocs
    /\ ip = NoParser
    /\ exc = "none"
    /\ rule \in KeyRules
    /\ vi = 0
    /\ violators = {}
    /\ failed = FALSE
    /\ pass = 1
    /\ first_violators = {}
    /\ NumIdle /\ RxIdle /\ SearchIdle

SpecVerifyKeys == VerifyKeysInit /\ [][VerifyNext]_vars

(***************************************************************************)
(* Searching the services for the default of a keyword: the query a        *)
(* command line gives for it (the default's text; False for a flag).       *)
(***************************************************************************)
DefaultQueries ==
    {<<QueryItem("user", <<Root>>)>>, <<QueryItem("group", <<Root>>)>>,
     <<QueryItem("class", <<Default>>)>>, <<QueryItem("priority", <<<<"0">>>>)>>,
     <<QueryItem("console", <<PyFalse>>)>>, <<QueryItem("critical", <<PyFalse>>)>>,
     <<QueryItem("disabled", <<PyFalse>>)>>, <<QueryItem("oneshot", <<PyFalse>>)>>}

SearchDefault ==
    /\ pc = "parsed"
    /\ \E query \in DefaultQueries, lazy \in BOOLEAN :
          /\ q_name' = "service"
          /\ q' = query
          /\ q_lazy' = lazy
          /\ Searched(InitParser_search(ip, "service", query, lazy))
          /\ ip' = InitParser_searched(ip, "service", query, lazy)
    /\ UNCHANGED files

DefaultsNext ==
    \/ Construct /\ UNCHANGED searchVars /\ SearchFrame
    \/ SearchDefault /\ SearchFrame

SpecDefaults == SearchInit /\ [][DefaultsNext]_vars

(***************************************************************************)
(* Claims about the NumberMatcher.                                         *)
(***************************************************************************)
Operands == (0 - MaxOperand)..MaxOperand

OperatorChars == {OperatorOrder[i] : i \in 1..Len(OperatorOrder)}

Compare(op, c, n) ==
    CASE op = "==" -> c = n
      [] op = "!=" -> c # n
      [] op = "<" -> c < n
      [] op = "<=" -> c <= n
      [] op = ">" -> c > n
      [] op = ">=" -> c >= n

Verdict(b) == IF b THEN "match" ELSE "nomatch"

\* C4: a matcher built from "<op><n>" matches a candidate c iff c op n, for
\* each of the six operators, and a matcher built from the bare integer "n"
\* is the matcher built from "==n".
C4_OperatorSemantics ==
    \A n \in Operands :
        /\ \A op \in OperatorChars :
              expr = op \o Dec(n) =>
                  /\ pc # "raised"
                  /\ pc = "matched" =>
                        nres = Verdict(Compare(OperatorName(op), cand, n))
        /\ expr = Dec(n) =>
              /\ pc # "raised"
              /\ pc # "new" => numm = NumberMatcher_init(<<"=", "=">> \o Dec(n))
              /\ pc = "matched" => nres = Verdict(cand = n)

C4_Witness ==
    /\ pc = "matched"
    /\ expr = <<"<", "=", "-", "2">>
    /\ cand = 0 - 2
    /\ nres = "match"

\* C5: a matcher built from the range "a,b" matches c iff c = a when a = b,
\* and otherwise iff min(a,b) <= c < max(a,b).
C5_RangeHalfOpen ==
    \A a \in Operands :
        StartsWith(expr, Dec(a) \o <<",">>) =>
            \A b \in Operands :
                expr = Dec(a) \o <<",">> \o Dec(b) =>
                    /\ pc # "raised"
                    /\ pc = "matched" =>
                          nres = Verdict(IF a = b THEN cand = a
                                         ELSE IF a < b
                                         THEN a <= cand /\ cand < b
                                         ELSE b <= cand /\ cand < a)

C5_Witness ==
    /\ pc = "matched"
    /\ expr = <<"2", ",", "0">>
    /\ cand = 2
    /\ nres = "nomatch"

\* The comma-free expressions the constructor accepts: a bare integer, or
\* one of the six operators followed by an integer.
WellFormedOperatorExpr(e) ==
    \/ int0(e).ok
    \/ \E op \in OperatorChars :
          StartsWith(e, op) /\ int0(SubSeq(e, Len(op) + 1, Len(e))).ok

\* C6: constructing a NumberMatcher from a comma-free expression that is
\* neither a bare integer nor an operator followed by an integer raises
\* ValueError and yields no matcher.
C6_MalformedRaisesValueError ==
    (pc # "new" /\ ~HasComma(expr) /\ ~WellFormedOperatorExpr(expr)) =>
        /\ pc = "raised"
        /\ numm = NoMatcher("ValueError")

C6_Witness ==
    /\ pc = "raised"
    /\ expr = <<"=", "=">>
    /\ numm.err = "ValueError"

(***************************************************************************)
(* Claims about the RegexMatcher.                                          *)
(***************************************************************************)
IsPlain(p) == \A i \in 1..Len(p) : p[i] \in PlainChars

Contains(s, p) ==
    \E i \in 1..(Len(s) + 1) :
        i + Len(p) - 1 <= Len(s) /\ SubSeq(s, i, i + Len(p) - 1) = p

\* C7: for a pattern of plain characters, a greedy matcher matches a
\* literal iff the literal contains the pattern, a lazy matcher matches it
\* iff the literal equals the pattern, and so a lazy match is a greedy one.
C7_GreedyContainsLazyEquals ==
    (pc = "matched" /\ IsPlain(rx_pat)) =>
        /\ ~rx_lazy => (rx_res = "match" <=> Contains(rx_cand, rx_pat))
        /\ rx_lazy => (rx_res = "match" <=> rx_cand = rx_pat)
        /\ (rx_lazy /\ rx_res = "match") =>
              RegexMatcher_match(RegexMatcher_init(rx_pat, FALSE), rx_cand)
                  = "match"

C7_Witness ==
    /\ pc = "matched"
    /\ rx_pat = <<"a", "b">>
    /\ rx_lazy
    /\ rx_cand = <<"a", "b", "a">>
    /\ rx_res = "nomatch"

(***************************************************************************)
(* Claims about parsing.                                                   *)
(***************************************************************************)
\* Line l of file f is a keyword line of a service section: the nearest
\* section line above it in its file opens a service.
ServiceKeywordLine(f, l) ==
    /\ files[f][l].first \notin SectionNames
    /\ \E h \in 1..(l - 1) :
          /\ files[f][h].first = "service"
          /\ \A k \in (h + 1)..(l - 1) : files[f][k].first \notin SectionNames

UnknownKeywordLines ==
    {fl \in UNION {{<<f, l>> : l \in 1..Len(files[f])} : f \in 1..Len(files)} :
        /\ ServiceKeywordLine(fl[1], fl[2])
        /\ files[fl[1]][fl[2]].first \notin DOMAIN ServiceSection_keywords}

Before(x, y) == x[1] < y[1] \/ (x[1] = y[1] /\ x[2] < y[2])

FirstUnknownKeywordLine ==
    CHOOSE x \in UnknownKeywordLines :
        \A y \in UnknownKeywordLines : x = y \/ Before(x, y)

\* The input up to, and without, line l of file f.
InputBefore(f, l) ==
    [i \in 1..f |-> IF i < f THEN files[i] ELSE SubSeq(files[f], 1, l - 1)]

FoundIdx == [i \in 1..Len(matches) |-> matches[i].section.idx]

\* The section lines of one name in the input, as <<file, line>>.
SectionLines(name) ==
    {fl \in UNION {{<<f, l>> : l \in 1..Len(files[f])} : f \in 1..Len(files)} :
        files[fl[1]][fl[2]].first = name}

\* Pattern t of a query is matched by some literal of the cell.
PatternMatched(cell, t, lazy) ==
    \E n \in 1..Len(cell.values) :
        Matcher_test(cell.matcher, t, lazy,
                     SectionValue_str(cell.values[n])) = "match"

\* C1: a section that search returns for a query giving several patterns
\* for a repeatable keyword has, for every one of the patterns, a literal
\* of that keyword matching it.
C1_EveryPatternMatched ==
    pc = "searched" =>
        \A r \in 1..Len(matches) : \A i \in 1..Len(q) :
            LET cell == SectionOf(ip, matches[r].section).option_map[q[i].key]
            IN  cell.is_appendable =>
                    \A n \in 1..Len(q[i].terms) :
                        PatternMatched(cell, q[i].terms[n], q_lazy)

\* C2: a search of the services whose query gives two or more patterns for
\* a single-valued keyword returns, without raising, the services whose
\* one literal of the keyword satisfies all the patterns.
C2_SingleValuedCompletes ==
    (/\ pc \in {"searched", "raised"}
     /\ q_name = "service"
     /\ Len(q) = 1
     /\ q[1].key \in {"user", "priority"}
     /\ Len(q[1].terms) >= 2) =>
        /\ pc = "searched"
        /\ {FoundIdx[r] : r \in 1..Len(matches)} =
              {i \in 1..Len(ip.items["service"]) :
                  LET cell == ip.items["service"][i].option_map[q[1].key]
                  IN  /\ Len(cell.values) = 1
                      /\ \A n \in 1..Len(q[1].terms) :
                            PatternMatched(cell, q[1].terms[n], q_lazy)}

\* C3: search returns one result for each section of the requested name
\* that matches the query and no other result, and the results are in
\* parse order: by file, then by line.  The sections of a name are the
\* section lines of that name in the input.
C3_OneResultPerMatchingSection ==
    pc = "searched" =>
        LET secs == ip.items[q_name]
        IN  /\ {<<secs[i].path, secs[i].lineno>> : i \in 1..Len(secs)} =
                  SectionLines(q_name)
            /\ \A r \in 1..Len(matches) : matches[r].section.name = q_name
            /\ {FoundIdx[r] : r \in 1..Len(matches)} =
                  {i \in 1..Len(secs) :
                      Section_match(secs[i], q, q_lazy).st = "match"}
            /\ \A r1, r2 \in 1..Len(matches) :
                  r1 < r2 =>
                      Before(<<secs[FoundIdx[r1]].path, secs[FoundIdx[r1]].lineno>>,
                             <<secs[FoundIdx[r2]].path, secs[FoundIdx[r2]].lineno>>)

\* Two services in two files, both returned, the first file's first.
C3_Witness ==
    /\ pc = "searched"
    /\ q_name = "service"
    /\ Len(matches) = 2
    /\ SectionOf(ip, matches[1].section).path = 1
    /\ SectionOf(ip, matches[2].section).path = 2

(***************************************************************************)
(* Claims about verification.                                              *)
(***************************************************************************)
Services == 1..Len(ip.items["service"])
SearchIdx == 1..Len(rule.searches)
ExceptIdx == 1..Len(rule.exceptions)

\* What search block s makes of service i, and what except block e does.
Flagged(s, i) ==
    Section_match(ip.items["service"][i], rule.searches[s].query, FALSE)
Excepted(e, i) ==
    Section_match(ip.items["service"][i], rule.exceptions[e], FALSE)

\* The Match Result of search block s for service i.
Result(s, i) ==
    SubMatches(SectionRef("service", i), Flagged(s, i).submatches)

Literals(cell) == {cell.values[n].value : n \in 1..Len(cell.values)}

\* Except block e matches service i and its matched literals include every
\* literal search block s flagged.
Covers(e, s, i) ==
    /\ Excepted(e, i).st = "match"
    /\ \A k \in DOMAIN Flagged(s, i).submatches :
          /\ k \in DOMAIN Excepted(e, i).submatches
          /\ Literals(Flagged(s, i).submatches[k]) \subseteq
                Literals(Excepted(e, i).submatches[k])

\* C9: when every service the rule's searches flag has an except block in
\* the rule that covers it, the run ends with an empty violation set and
\* the rule is not failed, however the except blocks are ordered.
C9_CoveredRulePasses ==
    (/\ pc \in {"verified", "raised"}
     /\ \A s \in SearchIdx, i \in Services :
           Flagged(s, i).st = "match" => \E e \in ExceptIdx : Covers(e, s, i)) =>
        /\ pc = "verified"
        /\ violators = {}
        /\ ~failed

\* No except block of the rule matches service i.
Unmatched(i) == \A e \in ExceptIdx : Excepted(e, i).st = "nomatch"

C11_SecondPassSame ==
    (pass = 2 /\ pc \in {"verified", "raised"}) =>
        /\ pc = "verified"
        /\ violators = first_violators

\* C12: a rule's search block, which overrides laziness nowhere, is
\* matched lazily: with no except block in the rule, every service in the
\* violation set is one a search block matches with lazy_regex true.
C12_SearchBlocksLazy ==
    (pc = "verified" /\ pass = 1 /\ Len(rule.exceptions) = 0) =>
        \A v \in violators : \E s \in SearchIdx :
            Section_match(SectionOf(ip, v.section), rule.searches[s].query,
                          TRUE).st = "match"

\* The keywords a block of the rule names outside the service schema.
UnknownKeys(query) == QueryKeys(query) \ DOMAIN ServiceSection_keywords

RuleNamesUnknownKey ==
    \/ \E s \in SearchIdx : UnknownKeys(rule.searches[s].query) # {}
    \/ \E e \in ExceptIdx : UnknownKeys(rule.exceptions[e]) # {}

\* C13: a rule one of whose search or except blocks names a keyword outside
\* the schema is rejected: the run ends with the error of the validation
\* of SearchCommand, never with a verdict nor with an error raised while a
\* section is matched.
C13_QueriesValidated ==
    (pc \in {"verified", "raised"} /\ RuleNamesUnknownKey) =>
        /\ pc = "raised"
        /\ exc = "Exception"

\* The (literal, pattern) pairs of a cell and a query item that match.
MatchingPairs(cell, item, lazy) ==
    {nt \in (1..Len(cell.values)) \X (1..Len(item.terms)) :
        Matcher_test(cell.matcher, item.terms[nt[2]], lazy,
                     SectionValue_str(cell.values[nt[1]])) = "match"}

\* The query names keywords of the section's schema, all repeatable.
AllRepeatable(name, query) ==
    \A i \in 1..Len(query) :
        /\ query[i].key \in DOMAIN KeywordsOf(name)
        /\ KeywordsOf(name)[query[i].key].is_appendable

MatchedLiterals(cell, item, lazy) ==
    SelectSeq(cell.values,
              LAMBDA v : \E t \in 1..Len(item.terms) :
                  Matcher_test(cell.matcher, item.terms[t], lazy,
                               SectionValue_str(v)) = "match")

\* C15: a result of a search has one submatch entry for every keyword of
\* the query, and the entry holds exactly the literals of the section that
\* matched, with their line numbers, each once, in first-matched order.
C15_SubmatchLiterals ==
    pc = "searched" =>
        \A r \in 1..Len(matches) :
            /\ DOMAIN matches[r].submatches = QueryKeys(q)
            /\ \A i \in 1..Len(q) :
                  matches[r].submatches[q[i].key].values =
                      MatchedLiterals(
                          SectionOf(ip, matches[r].section).option_map[q[i].key],
                          q[i], q_lazy)

\* Line l of file f is a second line of a single-valued keyword in one
\* service section.
SecondPushLines ==
    {fl \in UNION {{<<f, l>> : l \in 1..Len(files[f])} : f \in 1..Len(files)} :
        LET f == fl[1]
            l == fl[2]
        IN  /\ ServiceKeywordLine(f, l)
            /\ files[f][l].first \in DOMAIN ServiceSection_keywords
            /\ ~ServiceSection_keywords[files[f][l].first].is_appendable
            /\ \E k \in 1..(l - 1) :
                  /\ files[f][k].first = files[f][l].first
                  /\ \A j \in k..l : files[f][j].first \notin SectionNames}

FirstSecondPushLine ==
    CHOOSE x \in SecondPushLines :
        \A y \in SecondPushLines : x = y \/ Before(x, y)

KeywordLines(f, h, k) ==
    {l \in (h + 1)..Len(files[f]) :
        /\ files[f][l].first = k
        /\ \A j \in (h + 1)..l : files[f][j].first \notin SectionNames}

\* C17: every single-valued cell, of a parsed service or of a submatch of
\* a search result, holds at most one literal; the cell of a service holds
\* the schema default until the keyword's line, and that line's literal
\* alone, with its line number, after it.
C17_SingleValuedCells ==
    /\ \A i \in 1..Len(ip.items["service"]) :
          LET sec == ip.items["service"][i]
          IN  \A k \in DOMAIN ServiceSection_keywords :
                  LET cell == sec.option_map[k]
                      ls == KeywordLines(sec.path, sec.lineno, k)
                  IN  ~cell.is_appendable =>
                          /\ Len(cell.values) <= 1
                          /\ Cardinality(ls) <= 1
                          /\ ls = {} =>
                                cell.values = ServiceSection_keywords[k].values
                          /\ \A l \in ls :
                                cell.values =
                                    <<SectionValue(
                                        IF cell.default_type = "bool"
                                        THEN PyTrue
                                        ELSE files[sec.path][l].rest, l)>>
    /\ \A r \in 1..Len(matches) :
          \A k \in DOMAIN matches[r].submatches :
              ~matches[r].submatches[k].is_appendable =>
                  Len(matches[r].submatches[k].values) <= 1

\* A service with a user line, whose default root the line has replaced,
\* returned by a search for its user.
C17_Witness ==
    /\ pc = "searched"
    /\ files = <<<<Line("service", A), Line("user", AB)>>>>
    /\ ip.items["service"][1].option_map["user"].values =
          <<SectionValue(AB, 2)>>
    /\ Len(matches) = 1
    /\ "user" \in DOMAIN matches[1].submatches
    /\ matches[1].submatches["user"].values = <<SectionValue(AB, 2)>>

\* The expression is two integers with one comma between them.
WellFormedRangeExpr(e) ==
    /\ Len(Split(e, ",")) = 2
    /\ int0(Split(e, ",")[1]).ok
    /\ int0(Split(e, ",")[2]).ok

\* C18: constructing a NumberMatcher from an expression with a comma that
\* is not two integers with one comma between them raises ValueError, the
\* error of the other malformed numeric expressions, which the caller can
\* handle; it does not end the run.
C18_MalformedRangeRaisesValueError ==
    (pc # "new" /\ HasComma(expr) /\ ~WellFormedRangeExpr(expr)) =>
        /\ pc = "raised"
        /\ numm = NoMatcher("ValueError")

\* The first except block of the rule that matches service i (0: none).
FirstExcept(i) ==
    LET hits == {e \in ExceptIdx : Excepted(e, i).st = "match"}
    IN  IF hits = {} THEN 0 ELSE CHOOSE e \in hits : \A d \in hits : e <= d

\* The literals left of sub when, for each of the first n exception
\* literals in turn, one literal of its value is removed where there is one.
RECURSIVE Remainder(_, _, _)
Remainder(sub, fltr_values, n) ==
    IF n = 0 THEN sub
    ELSE LET left == Remainder(sub, fltr_values, n - 1)
         IN  IF ValueIn(fltr_values[n], left)
             THEN list_remove(left, fltr_values[n]) ELSE left

\* The remainder of a found submatch map under an exception's: the shared
\* keywords that keep a literal, each with its literals left.
RemainderOf(found_sub, fltr) ==
    [k \in {kk \in (DOMAIN found_sub) \cap (DOMAIN fltr) :
               Remainder(found_sub[kk].values, fltr[kk].values,
                         Len(fltr[kk].values)) # <<>>} |->
        [cls |-> "list",
         values |-> Remainder(found_sub[k].values, fltr[k].values,
                              Len(fltr[k].values))]]

\* C19: for a rule with one search block the run completes, and a service
\* the search flags and an except block matches is judged by the remainder
\* of its filter: each shared keyword loses one literal for each exception
\* literal of equal value and is dropped when it keeps none; the service is
\* excused when nothing remains, and otherwise it is in the violation set
\* with the remainder for its submatches.
C19_FilterRemainder ==
    (pc \in {"verified", "raised"} /\ Len(rule.searches) = 1) =>
        /\ pc = "verified"
        /\ \A i \in Services :
              (Flagged(1, i).st = "match" /\ FirstExcept(i) # 0) =>
                  LET rem == RemainderOf(Flagged(1, i).submatches,
                                 Excepted(FirstExcept(i), i).submatches)
                  IN  IF DOMAIN rem = {}
                      THEN \A v \in violators : v.section.idx # i
                      ELSE SubMatches(SectionRef("service", i), rem)
                              \in violators

\* C20: a service the one search block of a rule flags is excused by an
\* except block only when that block explains the match: every keyword of
\* the found submatches is a keyword of the exception's, and every literal
\* found under it has a literal of equal value in the exception's.
C20_ExcusedOnlyIfExplained ==
    (pc = "verified" /\ Len(rule.searches) = 1) =>
        \A i \in Services :
            (/\ Flagged(1, i).st = "match"
             /\ FirstExcept(i) # 0
             /\ \A v \in violators : v.section.idx # i) =>
                LET found_sub == Flagged(1, i).submatches
                    fltr == Excepted(FirstExcept(i), i).submatches
                IN  \A k \in DOMAIN found_sub :
                        /\ k \in DOMAIN fltr
                        /\ \A n \in 1..Len(found_sub[k].values) :
                              ValueIn(found_sub[k].values[n], fltr[k].values)

\* What the verifier is to make of the Match Result of search block s for
\* service i: the result itself when no except block matches the service,
\* else the result with the remainder the first matching block leaves.
Judged(s, i) ==
    IF FirstExcept(i) = 0 THEN Result(s, i)
    ELSE SubMatches(SectionRef("service", i),
             RemainderOf(Flagged(s, i).submatches,
                         Excepted(FirstExcept(i), i).submatches))

Excused(s, i) == FirstExcept(i) # 0 /\ DOMAIN Judged(s, i).submatches = {}

\* C21: in a run that completes, each Match Result is judged by the first
\* except block of the rule that matches its service and by no later one:
\* a service whose every result that block excuses is not in the violation
\* set; a result it leaves a remainder of is in the set with that
\* remainder (or an earlier entry of the set stands for it), whatever the
\* later blocks would excuse; and every entry of the set is such a result.
C21_FirstExceptionWins ==
    pc = "verified" =>
        /\ \A i \in Services :
              (\A s \in SearchIdx : Flagged(s, i).st = "match" => Excused(s, i))
                  => \A v \in violators : v.section.idx # i
        /\ \A s \in SearchIdx, i \in Services :
              (Flagged(s, i).st = "match" /\ ~Excused(s, i)) =>
                  \E v \in violators : SubMatches_eq(v, Judged(s, i))
        /\ \A v \in violators :
              \E s \in SearchIdx :
                  /\ Flagged(s, v.section.idx).st = "match"
                  /\ v = Judged(s, v.section.idx)

\* The first except block leaves the socket a of the one service, the
\* second would excuse all its sockets; the service is a violator.
C21_Witness ==
    /\ pc = "verified"
    /\ Len(rule.searches) = 1
    /\ Len(rule.exceptions) = 2
    /\ Len(ip.items["service"]) = 1
    /\ Flagged(1, 1).st = "match"
    /\ FirstExcept(1) = 1
    /\ Covers(2, 1, 1)
    /\ violators = {Judged(1, 1)}

\* a holds, for every keyword of b, an entry equal to b's: the keyword
\* with the same literals.
HoldsEqualEntries(a, b) ==
    /\ a.section = b.section
    /\ \A k \in DOMAIN b.submatches :
          /\ k \in DOMAIN a.submatches
          /\ a.submatches[k].values = b.submatches[k].values

\* C22: a Match Result equals another iff it is of the same section and
\* holds an equal entry for every keyword of the other.  So, for a rule
\* without except blocks, the violation set holds for every result of a
\* search an entry that holds its keywords with its literals.
C22_EqualEntries ==
    (pc = "verified" /\ Len(rule.exceptions) = 0) =>
        \A s \in SearchIdx, i \in Services :
            Flagged(s, i).st = "match" =>
                \E v \in violators : HoldsEqualEntries(v, Result(s, i))

\* The results of the first n search blocks for service i that the except
\* blocks do not excuse, as <<search block, result>>.
Accumulated(n, i) ==
    {<<s, Judged(s, i)>> : s \in {t \in 1..n : /\ Flagged(t, i).st = "match"
                                                /\ ~Excused(t, i)}}

\* C23, as stated: a later result for a service whose keywords include
\* those of an earlier result for it is no entry of its own in the
\* violation set.
C23_AsStated ==
    pc = "verified" =>
        \A i \in Services : \A x, y \in Accumulated(Len(rule.searches), i) :
            (/\ x[1] < y[1]
             /\ DOMAIN x[2].submatches \subseteq DOMAIN y[2].submatches
             /\ y[2] \in violators) =>
                y[2] = x[2]

\* C23, amended: while the results of a rule are accumulated, a later
\* result for a service collapses into an entry of the set exactly when
\* its keywords are all keywords of an earlier result for that service;
\* the set keeps the earlier entry, and a later result with a keyword no
\* earlier result holds is added as a further entry for the service.
C23_SubsumedCollapses ==
    (pc \in {"parsed", "verified"} /\ ip # NoParser) =>
        violators =
            UNION {{y[2] : y \in {z \in Accumulated(vi, i) :
                        \A x \in Accumulated(vi, i) :
                            x[1] < z[1] =>
                                ~(DOMAIN z[2].submatches \subseteq
                                      DOMAIN x[2].submatches)}} :
                   i \in Services}

\* The first search block flags the service on args and socket, the second
\* on socket alone: one entry; and in the other order there are two.
C23_Witness ==
    /\ pc = "verified"
    /\ Len(rule.searches) = 2
    /\ Len(ip.items["service"]) = 1
    /\ Flagged(1, 1).st = "match"
    /\ Flagged(2, 1).st = "match"
    /\ DOMAIN Flagged(1, 1).submatches = {"args", "socket"}
    /\ DOMAIN Flagged(2, 1).submatches = {"socket"}
    /\ Len(rule.exceptions) = 0
    /\ violators = {Result(1, 1)}

\* The deduplicating set of the unfiltered results of all search blocks:
\* a result is dropped when an earlier result for its service holds all its
\* keywords.
Unioned ==
    {si \in SearchIdx \X Services :
        /\ Flagged(si[1], si[2]).st = "match"
        /\ \A t \in 1..(si[1] - 1) :
              ~(/\ Flagged(t, si[2]).st = "match"
                /\ DOMAIN Flagged(si[1], si[2]).submatches \subseteq
                      DOMAIN Flagged(t, si[2]).submatches)}

\* The violations when the except blocks are applied to that set.
UnionFirst ==
    {Judged(si[1], si[2]) : si \in {x \in Unioned : ~Excused(x[1], x[2])}}

\* C24: the violation set of a completed run is the set that results from
\* uniting the results of all search blocks in the deduplicating set first
\* and filtering each entry of that set afterwards.
C24_FilterBeforeOrAfterUnion ==
    pc = "verified" => violators = UnionFirst

\* C25: after any searches and verification passes the parser's store is
\* as the constructor left it: every section has the cells, with their
\* literals, line numbers and is_set, that the input gives it.
C25_SectionsUnchanged ==
    pc \notin {"new", "aborted"} => ip = InitParser(files)

\* Two passes over a rule whose except block has filtered a flagged
\* service and left a remainder.
C25_Witness ==
    /\ pc = "verified"
    /\ pass = 2
    /\ Len(rule.exceptions) >= 1
    /\ \E i \in Services :
          /\ Flagged(1, i).st = "match"
          /\ FirstExcept(i) # 0
          /\ Judged(1, i) \in violators
    /\ ip = InitParser(files)

\* The last line of the section that line h of file f opens.
LastLine(f, h) ==
    CHOOSE l \in h..Len(files[f]) :
        /\ \A j \in (h + 1)..l : files[f][j].first \notin SectionNames
        /\ l < Len(files[f]) => files[f][l + 1].first \in SectionNames

\* The section with lines l to last of file f pushed into it.
RECURSIVE PushedAlone(_, _, _, _)
PushedAlone(sec, f, l, last) ==
    IF l > last THEN sec
    ELSE PushedAlone(Section_push(sec, files[f][l], l).sec, f, l + 1, last)

\* The section that line h of file f opens, parsed on its own from the
\* schema of its class as the module defines it.
ParsedAlone(f, h) ==
    PushedAlone(Section(files[f][h].first, files[f][h].rest, f, h),
                f, h + 1, LastLine(f, h))

\* C26: every section of a parsed input holds what its own lines give it
\* over the schema defaults of its class, whatever sections were parsed and
\* filled before it, and the schemas of the classes are as the module
\* defines them.
C26_SectionsIsolated ==
    pc = "parsed" =>
        /\ ip.keywords = ClassKeywords
        /\ \A name \in SectionNames : \A i \in 1..Len(ip.items[name]) :
              ip.items[name][i] =
                  ParsedAlone(ip.items[name][i].path, ip.items[name][i].lineno)

\* Two services, each with a socket line of its own, the second holding
\* its own literal alone.
C26_Witness ==
    /\ pc = "parsed"
    /\ files = <<<<Line("service", A), Line("socket", A),
                   Line("service", A), Line("socket", A)>>>>
    /\ ip.items["service"][2].option_map["socket"].values =
          <<SectionValue(A, 4)>>
    /\ ~ip.items["service"][2].option_map["user"].is_set

\* VerifyCommand._print reads section_keyword_values.values of every
\* submatch: an attribute a SectionKeywordValues has and a list has not.
HasValues(sub) == sub.cls = "SectionKeywordValues"

\* C27: every entry of the violation set has, for each of its keywords, a
\* submatch of the form of an unfiltered result's, a cell whose values the
\* printer can read, with the line number of each literal the line the
\* section holds it at.
C27_ViolatorsPrintable ==
    pc = "verified" =>
        \A v \in violators : \A k \in DOMAIN v.submatches :
            /\ HasValues(v.submatches[k])
            /\ \A n \in 1..Len(v.submatches[k].values) :
                  \E m \in 1..Len(SectionOf(ip, v.section).option_map[k].values) :
                      SectionOf(ip, v.section).option_map[k].values[m] =
                          v.submatches[k].values[n]

\* C28: the filter of a found result by the result of an except block for
\* the same service completes: no verification ends with the ValueError of
\* filter's list.remove, also when the exception's literals for a keyword
\* hold a value more than once.
C28_FilterCompletes ==
    pc = "raised" => exc # "ValueError"

\* The orders the search blocks of the rule can be listed in.
SearchOrders ==
    {f \in [SearchIdx -> SearchIdx] : \A x, y \in SearchIdx : f[x] = f[y] => x = y}

\* The violation set of the rule with its search blocks listed in order f.
ViolatorsInOrder(f) ==
    violations_search(ip,
        Test(rule.section, [n \in SearchIdx |-> rule.searches[f[n]].query],
             rule.exceptions).searches,
        rule.exceptions, 1, [exc |-> "none", found |-> {}]).found

\* C29: the violation set of a completed run is the violation set of the
\* rule with its search blocks listed in any other order.
C29_SearchOrderIrrelevant ==
    pc = "verified" => \A f \in SearchOrders : violators = ViolatorsInOrder(f)

\* C30: a search of the services for the default of a keyword returns
\* every service that never sets the keyword.
C30_DefaultMatches ==
    (pc \in {"searched", "raised"} /\ q \in DefaultQueries) =>
        /\ pc = "searched"
        /\ \A i \in 1..Len(ip.items["service"]) :
              ~ip.items["service"][i].option_map[q[1].key].is_set =>
                  i \in {FoundIdx[r] : r \in 1..Len(matches)}

====
